---- MODULE Spec2Model ----
(***************************************************************************)
(* Model of src/Arduino.cpp: the terminal raw-mode controller              *)
(* (enableRawMode, disableRawMode, die), the SIGINT handler                *)
(* (handleControlC) and the run loop (__main).                             *)
(*                                                                         *)
(* The process is a stack of program positions (stk).  The top of the      *)
(* stack is the statement that executes next; a call pushes the callee's   *)
(* first statement, a return pops it, delivery of SIGINT pushes the        *)
(* handler's first statement on whatever is executing.  An empty stack is  *)
(* a process that no longer exists.                                        *)
(*                                                                         *)
(* Platform semantics assumed (glibc/Linux, the platform of the project):  *)
(*   - signal() installs the handler with BSD semantics: SIGINT is blocked *)
(*     while handleControlC executes and the disposition is not reset;     *)
(*   - a failing tcsetattr()/tcgetattr() changes nothing;                  *)
(*   - exit() called while exit() is already running the atexit handlers   *)
(*     is undefined behaviour: the model lets the nested exit either carry *)
(*     on with the handlers that have not started yet or start them over;  *)
(*   - calling an undefined weak function is undefined behaviour: the      *)
(*     model lets it either crash (call to address 0) or do nothing (the   *)
(*     linker replaced the branch by a no-op).                             *)
(***************************************************************************)
EXTENDS Integers, Sequences, FiniteSets, TLC

(* ----------------------------- bounds ---------------------------------- *)

\* number of bytes the environment delivers on stdin during one run
MaxInput == 2

\* number of enableRawMode/disableRawMode calls the call driver makes
MaxCalls == 3

(* ----------------------------- termios --------------------------------- *)

\* byte values the environment may deliver (NUL, 'A', 0xFF)
Bytes == {0, 65, 255}

\* static struct termios orig_termios: zero-initialised static storage
ZeroTermios ==
  [iflag |-> {}, oflag |-> {}, cflag |-> {}, lflag |-> {}, vmin |-> 0, vtime |-> 0]

\* an ordinary cooked terminal
CookedTermios ==
  [iflag |-> {"ICRNL", "IXON"}, oflag |-> {"OPOST", "ONLCR"},
   cflag |-> {"CREAD", "CS8"}, lflag |-> {"ISIG", "ICANON", "ECHO", "IEXTEN"},
   vmin |-> 1, vtime |-> 0]

\* a 7-bit line with parity checking, no output post-processing
ParityTermios ==
  [iflag |-> {"INPCK", "ISTRIP", "IXON", "ICRNL"}, oflag |-> {},
   cflag |-> {"CREAD"}, lflag |-> {"ISIG", "ICANON"},
   vmin |-> 1, vtime |-> 1]

\* struct termios raw = orig_termios; ... (lines 89-102)
MakeRaw(t) ==
  [iflag |-> t.iflag \ {"INPCK", "ISTRIP", "IXON"},
   oflag |-> t.oflag \cup {"OPOST", "ONLCR"},
   cflag |-> t.cflag \cup {"CS8"},
   lflag |-> t.lflag \ {"ICANON", "IEXTEN"},
   vmin  |-> 0,
   vtime |-> 0]

\* configurations the terminal may have when the process starts; the last
\* one is a terminal some earlier program already left in this raw mode
InitialTermios == {CookedTermios, ParityTermios, MakeRaw(CookedTermios)}

(* ------------------------------ state ---------------------------------- *)

VARIABLES
  isTty,         \* isatty(STDIN_FILENO)
  stdinKind,     \* what stdin is: "tty", "pipe" (a pipe whose writer stays
                 \* open) or "eof" (a file, /dev/null or a closed pipe)
  term,          \* the terminal's configuration (kernel state)
  term0,         \* the terminal's configuration when the process started
  orig_termios,  \* static struct termios orig_termios
  inRawMode,     \* static bool inRawMode
  stk,           \* stack of program positions, top last
  sigHandler,    \* disposition of SIGINT: "SIG_DFL" or "handleControlC"
  sigBlocked,    \* SIGINT is blocked (handleControlC has not returned)
  atexitList,    \* functions registered with atexit(), in order
  atexitIdx,     \* exit(): number of registered functions not started yet
  exiting,       \* exit() has been called
  exitCalls,     \* the arguments of the exit() calls so far
  killedBy,      \* "" or the signal that killed the process
  setupDefined,  \* the user program defines setup()
  loopDefined,   \* the user program defines loop()
  c,             \* char c of the current loop iteration
  nread,         \* return value of read() in the current iteration
  iterInserts,   \* arguments of the insertChar calls of the current iteration
  serialBuf,     \* arguments of all Serial.insertChar calls
  delivered,     \* bytes that read() has delivered so far
  syscalls,      \* tcgetattr/tcsetattr calls made so far
  stderrLog,     \* messages written by perror()
  dieCalls,      \* number of calls of die()
  sigMark,       \* what held when handleControlC was last entered
  startupLog,    \* the startup steps of __main executed so far
  callLog,       \* calls made by the call driver, each with the terminal's
                 \* configuration at the time of the call
  delayMs,       \* the argument ms of the delay() call under study
  usleepArg,     \* the useconds_t value delay() handed to usleep(), as a
                 \* sequence holding one [hi, lo] pair of 16-bit halves
  elapsedMs      \* millis() after delay() minus millis() before it

vars ==
  <<isTty, term, term0, orig_termios, inRawMode, stk, sigHandler, sigBlocked,
    atexitList, atexitIdx, exiting, exitCalls, killedBy, setupDefined,
    loopDefined, c, nread, iterInserts, serialBuf, delivered, syscalls,
    stderrLog, dieCalls, sigMark, startupLog, callLog, stdinKind, delayMs,
    usleepArg, elapsedMs>>

\* groups of variables for UNCHANGED
termVars == <<isTty, stdinKind, term, term0, orig_termios, inRawMode>>
sigVars  == <<sigHandler, sigBlocked, sigMark>>
exitVars == <<atexitIdx, exiting, exitCalls, killedBy>>
userVars == <<setupDefined, loopDefined>>
loopVars == <<c, nread, iterInserts, serialBuf, delivered>>
logVars  == <<syscalls, stderrLog, dieCalls>>
timeVars == <<delayMs, usleepArg, elapsedMs>>

(* ----------------------------- helpers --------------------------------- *)

Top(s) == s[Len(s)]
Pop(s) == SubSeq(s, 1, Len(s) - 1)
Last(s) == s[Len(s)]

\* the process exists and its next statement is l
At(l) == stk # <<>> /\ Top(stk) = l

\* the process no longer exists
Terminated == stk = <<>>

\* statements of handleControlC
HandlerLabels == {"h_isatty", "h_flag", "h_tcsetattr", "h_perror", "h_clear", "h_exit"}

\* handleControlC is executing (it was entered and has neither returned nor
\* called exit)
InHandler == \E i \in 1..Len(stk) : stk[i] \in HandlerLabels

\* a terminal call as recorded in syscalls
SysCall(fn, arg, by, ok) ==
  [fn |-> fn, arg |-> arg, by |-> by, ok |-> ok, call |-> Len(callLog)]

IsRestore(e) == e.fn = "tcsetattr" /\ e.arg = "orig_termios"
IsApply(e)   == e.fn = "tcsetattr" /\ e.arg = "raw"
IsCapture(e) == e.fn = "tcgetattr"

\* restoring tcsetattr calls made so far (successful or not)
nRestore == Len(SelectSeq(syscalls, IsRestore))

(* ------------------------- exit() and die() ---------------------------- *)

\* exit(code): run the atexit handlers, then end the process.  A nested
\* call (exit() is already running the handlers) is undefined behaviour:
\* the handlers not yet started are run, or all of them are run again.
ExitProc(code) ==
  /\ exitCalls' = Append(exitCalls, code)
  /\ exiting' = TRUE
  /\ stk' = <<"x_run">>
  /\ IF exiting
       THEN \E restart \in BOOLEAN :
              atexitIdx' = IF restart THEN Len(atexitList) ELSE atexitIdx
       ELSE atexitIdx' = Len(atexitList)
  /\ UNCHANGED killedBy

\* exit(): call the next registered function (last registered first)
X_call ==
  /\ At("x_run")
  /\ atexitIdx > 0
  /\ atexitIdx' = atexitIdx - 1
  /\ stk' = <<"x_run", "d_isatty">>
  /\ UNCHANGED <<termVars, sigVars, atexitList, exiting, exitCalls, killedBy,
                 userVars, timeVars, loopVars, logVars, startupLog, callLog>>

\* exit(): no function left, _exit(status)
X_done ==
  /\ At("x_run")
  /\ atexitIdx = 0
  /\ stk' = <<>>
  /\ UNCHANGED <<termVars, sigVars, atexitList, exitVars, userVars, timeVars, loopVars,
                 logVars, startupLog, callLog>>

\* the positions at which die(s) is about to be called, one per call site:
\* "die:<s>"
DieLabels ==
  {"die:enableRawMode(): tcgetattr() failure",
   "die:enableRawMode(): tcsetattr() failure",
   "die:disableRawMode(): tcsetattr() failure"}

\* die() with the wrong exit status: exit(0)
Die_Mut ==
  /\ stk # <<>>
  /\ Top(stk) \in DieLabels
  /\ stderrLog' = Append(stderrLog, Top(stk))
  /\ dieCalls' = dieCalls + 1
  /\ ExitProc(0)
  /\ UNCHANGED <<termVars, sigVars, atexitList, userVars, timeVars, loopVars, syscalls,
                 startupLog, callLog>>

\* die(s) at the position "die:<s>": perror(s); exit(1);
Die ==
  /\ stk # <<>>
  /\ Top(stk) \in DieLabels
  /\ stderrLog' = Append(stderrLog, Top(stk))
  /\ dieCalls' = dieCalls + 1
  /\ ExitProc(1)
  /\ UNCHANGED <<termVars, sigVars, atexitList, userVars, timeVars, loopVars, syscalls,
                 startupLog, callLog>>

(* --------------------------- enableRawMode ----------------------------- *)

\* enableRawMode without the isatty() test
E_isatty_Mut ==
  /\ At("e_isatty")
  /\ stk' = Append(Pop(stk), "e_tcgetattr")
  /\ UNCHANGED <<termVars, sigVars, atexitList, exitVars, userVars, timeVars, loopVars,
                 logVars, startupLog, callLog>>

\* line 84: if (!isatty(STDIN_FILENO)) return;
E_isatty ==
  /\ At("e_isatty")
  /\ stk' = IF isTty THEN Append(Pop(stk), "e_tcgetattr") ELSE Pop(stk)
  /\ UNCHANGED <<termVars, sigVars, atexitList, exitVars, userVars, timeVars, loopVars,
                 logVars, startupLog, callLog>>

\* lines 85-87: tcgetattr(STDIN_FILENO, &orig_termios), die on failure
E_tcgetattr ==
  /\ At("e_tcgetattr")
  /\ \E ok \in BOOLEAN :
       /\ syscalls' = Append(syscalls,
                             SysCall("tcgetattr", "orig_termios", "enableRawMode", ok))
       /\ IF ok
            THEN /\ orig_termios' = term
                 /\ stk' = Append(Pop(stk), "e_tcsetattr")
            ELSE /\ orig_termios' = orig_termios
                 /\ stk' = Append(Pop(stk), "die:enableRawMode(): tcgetattr() failure")
  /\ UNCHANGED <<isTty, stdinKind, term, term0, inRawMode, sigVars, atexitList, exitVars,
                 userVars, timeVars, loopVars, stderrLog, dieCalls, startupLog, callLog>>

\* lines 89-105: derive raw from orig_termios, tcsetattr(.., &raw), die on
\* failure
E_tcsetattr ==
  /\ At("e_tcsetattr")
  /\ \E ok \in BOOLEAN :
       /\ syscalls' = Append(syscalls,
                             SysCall("tcsetattr", "raw", "enableRawMode", ok))
       /\ IF ok
            THEN /\ term' = MakeRaw(orig_termios)
                 /\ stk' = Append(Pop(stk), "e_setflag")
            ELSE /\ term' = term
                 /\ stk' = Append(Pop(stk), "die:enableRawMode(): tcsetattr() failure")
  /\ UNCHANGED <<isTty, stdinKind, term0, orig_termios, inRawMode, sigVars, atexitList,
                 exitVars, userVars, timeVars, loopVars, stderrLog, dieCalls, startupLog,
                 callLog>>

\* line 106: inRawMode = true; and return
E_setflag ==
  /\ At("e_setflag")
  /\ inRawMode' = TRUE
  /\ stk' = Pop(stk)
  /\ UNCHANGED <<isTty, stdinKind, term, term0, orig_termios, sigVars, atexitList,
                 exitVars, userVars, timeVars, loopVars, logVars, startupLog, callLog>>

(* --------------------------- disableRawMode ---------------------------- *)

\* line 73: if (!isatty(STDIN_FILENO)) return;
D_isatty ==
  /\ At("d_isatty")
  /\ stk' = IF isTty THEN Append(Pop(stk), "d_flag") ELSE Pop(stk)
  /\ UNCHANGED <<termVars, sigVars, atexitList, exitVars, userVars, timeVars, loopVars,
                 logVars, startupLog, callLog>>

\* line 74: if (!inRawMode) return;
D_flag ==
  /\ At("d_flag")
  /\ stk' = IF inRawMode THEN Append(Pop(stk), "d_tcsetattr") ELSE Pop(stk)
  /\ UNCHANGED <<termVars, sigVars, atexitList, exitVars, userVars, timeVars, loopVars,
                 logVars, startupLog, callLog>>

\* disableRawMode writing back the raw configuration instead of the saved one
D_tcsetattr_Mut ==
  /\ At("d_tcsetattr")
  /\ \E ok \in BOOLEAN :
       /\ syscalls' = Append(syscalls,
                             SysCall("tcsetattr", "orig_termios", "disableRawMode", ok))
       /\ IF ok
            THEN /\ term' = MakeRaw(orig_termios)
                 /\ stk' = Pop(stk)
            ELSE /\ term' = term
                 /\ stk' = Append(Pop(stk), "d_clear")
  /\ UNCHANGED <<isTty, stdinKind, term0, orig_termios, inRawMode, sigVars, atexitList,
                 exitVars, userVars, timeVars, loopVars, stderrLog, dieCalls, startupLog,
                 callLog>>

\* line 75: tcsetattr(STDIN_FILENO, TCSAFLUSH, &orig_termios); on success
\* the function returns (line 79) and inRawMode keeps its value
D_tcsetattr ==
  /\ At("d_tcsetattr")
  /\ \E ok \in BOOLEAN :
       /\ syscalls' = Append(syscalls,
                             SysCall("tcsetattr", "orig_termios", "disableRawMode", ok))
       /\ IF ok
            THEN /\ term' = orig_termios
                 /\ stk' = Pop(stk)
            ELSE /\ term' = term
                 /\ stk' = Append(Pop(stk), "d_clear")
  /\ UNCHANGED <<isTty, stdinKind, term0, orig_termios, inRawMode, sigVars, atexitList,
                 exitVars, userVars, timeVars, loopVars, stderrLog, dieCalls, startupLog,
                 callLog>>

\* disableRawMode calling die(...) without clearing inRawMode first
D_clear_Mut ==
  /\ At("d_clear")
  /\ stk' = Append(Pop(stk), "die:disableRawMode(): tcsetattr() failure")
  /\ UNCHANGED <<termVars, sigVars, atexitList, exitVars, userVars, timeVars,
                 loopVars, logVars, startupLog, callLog>>

\* lines 76-77: inRawMode = false; then die(...)
D_clear ==
  /\ At("d_clear")
  /\ inRawMode' = FALSE
  /\ stk' = Append(Pop(stk), "die:disableRawMode(): tcsetattr() failure")
  /\ UNCHANGED <<isTty, stdinKind, term, term0, orig_termios, sigVars, atexitList,
                 exitVars, userVars, timeVars, loopVars, logVars, startupLog, callLog>>

(* --------------------------- handleControlC ---------------------------- *)

\* SIGINT arrives while handleControlC is installed and SIGINT is not
\* blocked: the handler is entered on top of whatever is executing
Deliver ==
  /\ stk # <<>>
  /\ sigHandler = "handleControlC"
  /\ ~sigBlocked
  /\ sigBlocked' = TRUE
  /\ sigMark' = <<[flag |-> inRawMode, restores |-> nRestore, dies |-> dieCalls]>>
  /\ stk' = Append(stk, "h_isatty")
  /\ UNCHANGED <<termVars, sigHandler, atexitList, exitVars, userVars, timeVars,
                 loopVars, logVars, startupLog, callLog>>

\* SIGINT arrives before signal() installed the handler: default action
DeliverDefault ==
  /\ stk # <<>>
  /\ sigHandler = "SIG_DFL"
  /\ stk' = <<>>
  /\ killedBy' = "SIGINT"
  /\ UNCHANGED <<termVars, sigVars, atexitList, atexitIdx, exiting, exitCalls,
                 userVars, timeVars, loopVars, logVars, startupLog, callLog>>

\* line 110: if (!isatty(STDIN_FILENO)) return;
H_isatty ==
  /\ At("h_isatty")
  /\ IF isTty
       THEN /\ stk' = Append(Pop(stk), "h_flag")
            /\ UNCHANGED sigBlocked
       ELSE /\ stk' = Pop(stk)
            /\ sigBlocked' = FALSE
  /\ UNCHANGED <<termVars, sigHandler, sigMark, atexitList, exitVars, userVars, timeVars,
                 loopVars, logVars, startupLog, callLog>>

\* line 111: if (inRawMode) { ... }
H_flag ==
  /\ At("h_flag")
  /\ stk' = Append(Pop(stk), IF inRawMode THEN "h_tcsetattr" ELSE "h_exit")
  /\ UNCHANGED <<termVars, sigVars, atexitList, exitVars, userVars, timeVars, loopVars,
                 logVars, startupLog, callLog>>

\* line 114: tcsetattr(STDIN_FILENO, TCSAFLUSH, &orig_termios)
H_tcsetattr ==
  /\ At("h_tcsetattr")
  /\ \E ok \in BOOLEAN :
       /\ syscalls' = Append(syscalls,
                             SysCall("tcsetattr", "orig_termios", "handleControlC", ok))
       /\ IF ok
            THEN /\ term' = orig_termios
                 /\ stk' = Append(Pop(stk), "h_clear")
            ELSE /\ term' = term
                 /\ stk' = Append(Pop(stk), "h_perror")
  /\ UNCHANGED <<isTty, stdinKind, term0, orig_termios, inRawMode, sigVars, atexitList,
                 exitVars, userVars, timeVars, loopVars, stderrLog, dieCalls, startupLog,
                 callLog>>

\* line 115: perror("handleControlC(): tcsetattr() failure");
H_perror ==
  /\ At("h_perror")
  /\ stderrLog' = Append(stderrLog, "handleControlC(): tcsetattr() failure")
  /\ stk' = Append(Pop(stk), "h_clear")
  /\ UNCHANGED <<termVars, sigVars, atexitList, exitVars, userVars, timeVars, loopVars,
                 syscalls, dieCalls, startupLog, callLog>>

\* handleControlC without the assignment inRawMode = false
H_clear_Mut ==
  /\ At("h_clear")
  /\ stk' = Append(Pop(stk), "h_exit")
  /\ UNCHANGED <<termVars, sigVars, atexitList, exitVars, userVars, timeVars, loopVars,
                 logVars, startupLog, callLog>>

\* line 117: inRawMode = false;
H_clear ==
  /\ At("h_clear")
  /\ inRawMode' = FALSE
  /\ stk' = Append(Pop(stk), "h_exit")
  /\ UNCHANGED <<isTty, stdinKind, term, term0, orig_termios, sigVars, atexitList,
                 exitVars, userVars, timeVars, loopVars, logVars, startupLog, callLog>>

\* line 119: exit(1);
H_exit ==
  /\ At("h_exit")
  /\ ExitProc(1)
  /\ UNCHANGED <<termVars, sigVars, atexitList, userVars, timeVars, loopVars, logVars,
                 startupLog, callLog>>

(* ------------------------------- __main -------------------------------- *)

\* the startup steps of __main, in program order (lines 133-142)
StartupOrder ==
  <<"signal", "atexit", "enableRawMode", "setup", "iteration", "loop">>

\* the log after step, which is recorded every time it is executed before
\* the service loop and once for the service loop's steps
Logged(step) ==
  IF step \in {"iteration", "loop"} /\ \E i \in 1..Len(startupLog) : startupLog[i] = step
    THEN startupLog
    ELSE Append(startupLog, step)

\* line 133: signal(SIGINT, handleControlC);
M_signal ==
  /\ At("m_signal")
  /\ sigHandler' = "handleControlC"
  /\ startupLog' = Logged("signal")
  /\ stk' = Append(Pop(stk), "m_atexit")
  /\ UNCHANGED <<termVars, sigBlocked, sigMark, atexitList, exitVars, userVars, timeVars,
                 loopVars, logVars, callLog>>

\* __main without the atexit() registration
M_atexit_Mut ==
  /\ At("m_atexit")
  /\ startupLog' = Logged("atexit")
  /\ stk' = Append(Pop(stk), "m_enable")
  /\ UNCHANGED <<termVars, sigVars, atexitList, exitVars, userVars, timeVars, loopVars,
                 logVars, callLog>>

\* line 134: atexit(disableRawMode);
M_atexit ==
  /\ At("m_atexit")
  /\ atexitList' = Append(atexitList, "disableRawMode")
  /\ startupLog' = Logged("atexit")
  /\ stk' = Append(Pop(stk), "m_enable")
  /\ UNCHANGED <<termVars, sigVars, exitVars, userVars, timeVars, loopVars, logVars,
                 callLog>>

\* line 135: enableRawMode();
M_enable ==
  /\ At("m_enable")
  /\ startupLog' = Logged("enableRawMode")
  /\ stk' = Append(Append(Pop(stk), "m_setup"), "e_isatty")
  /\ UNCHANGED <<termVars, sigVars, atexitList, exitVars, userVars, timeVars, loopVars,
                 logVars, callLog>>

\* what a call of a user callback does.  A defined callback returns or ends
\* the program with exit(0).  An undefined weak callback is called all the
\* same (there is no null check): the call crashes or does nothing.
CallUser(defined, next) ==
  IF defined
    THEN \/ /\ stk' = Append(Pop(stk), next)
            /\ UNCHANGED exitVars
         \/ ExitProc(0)
    ELSE \/ /\ stk' = <<>>
            /\ killedBy' = "SIGSEGV"
            /\ UNCHANGED <<atexitIdx, exiting, exitCalls>>
         \/ /\ stk' = Append(Pop(stk), next)
            /\ UNCHANGED exitVars

\* line 137: setup();
M_setup ==
  /\ At("m_setup")
  /\ startupLog' = Logged("setup")
  /\ CallUser(setupDefined, "m_read")
  /\ UNCHANGED <<termVars, sigVars, atexitList, userVars, timeVars, loopVars, logVars,
                 callLog>>

\* read(STDIN_FILENO, ..) with no input pending waits for input: on a
\* terminal unless the line discipline is non-canonical with VMIN = 0 (lines
\* 100-102), on anything else when it is a pipe with a writer (__main never
\* sets O_NONBLOCK)
ReadBlocks ==
  IF isTty
    THEN "ICANON" \in term.lflag \/ term.vmin > 0
    ELSE stdinKind = "pipe"

\* the loop with c declared outside of it: c keeps the previous byte when
\* read() stores nothing
M_read_Mut ==
  /\ At("m_read")
  /\ startupLog' = Logged("iteration")
  /\ iterInserts' = <<>>
  /\ \/ \E b \in Bytes :
          /\ Len(delivered) < MaxInput
          /\ nread' = 1
          /\ c' = b
          /\ delivered' = Append(delivered, b)
          /\ stk' = Append(Pop(stk), "m_insert")
     \/ /\ ~ReadBlocks
        /\ nread' = 0
        /\ c' = c
        /\ delivered' = delivered
        /\ stk' = Append(Pop(stk), "m_insert")
     \/ /\ nread' = -1
        /\ c' = c
        /\ delivered' = delivered
        /\ stk' = Append(Pop(stk), "m_insert")
     \/ /\ ReadBlocks
        /\ nread' = nread
        /\ c' = c
        /\ delivered' = delivered
        /\ stk' = Append(Pop(stk), "m_read_wait")
  /\ UNCHANGED <<termVars, sigVars, atexitList, exitVars, userVars, timeVars,
                 serialBuf, logVars, callLog>>

\* lines 139-140: char c = '\0'; read(STDIN_FILENO, &c, 1);
\* read() stores one byte and returns 1, or stores nothing and returns 0 (no
\* input, end of file) or -1 (error), or waits for input (ReadBlocks)
M_read ==
  /\ At("m_read")
  /\ startupLog' = Logged("iteration")
  /\ iterInserts' = <<>>
  /\ \/ \E b \in Bytes :
          /\ Len(delivered) < MaxInput
          /\ nread' = 1
          /\ c' = b
          /\ delivered' = Append(delivered, b)
          /\ stk' = Append(Pop(stk), "m_insert")
     \/ /\ ~ReadBlocks
        /\ nread' = 0
        /\ c' = 0
        /\ delivered' = delivered
        /\ stk' = Append(Pop(stk), "m_insert")
     \/ /\ nread' = -1
        /\ c' = 0
        /\ delivered' = delivered
        /\ stk' = Append(Pop(stk), "m_insert")
     \/ /\ ReadBlocks
        /\ nread' = nread
        /\ c' = 0
        /\ delivered' = delivered
        /\ stk' = Append(Pop(stk), "m_read_wait")
  /\ UNCHANGED <<termVars, sigVars, atexitList, exitVars, userVars, timeVars,
                 serialBuf, logVars, callLog>>

\* line 140, read() waiting: a byte arrives and read() returns 1
M_read_wake ==
  /\ At("m_read_wait")
  /\ Len(delivered) < MaxInput
  /\ \E b \in Bytes :
       /\ nread' = 1
       /\ c' = b
       /\ delivered' = Append(delivered, b)
  /\ stk' = Append(Pop(stk), "m_insert")
  /\ UNCHANGED <<termVars, sigVars, atexitList, exitVars, userVars, timeVars,
                 iterInserts, serialBuf, logVars, startupLog, callLog>>

\* the loop without the test of c: Serial.insertChar(c) in every iteration
M_insert_Mut ==
  /\ At("m_insert")
  /\ serialBuf' = Append(serialBuf, c)
  /\ iterInserts' = Append(iterInserts, c)
  /\ stk' = Append(Pop(stk), "m_loop")
  /\ UNCHANGED <<termVars, sigVars, atexitList, exitVars, userVars, timeVars, c, nread,
                 delivered, logVars, startupLog, callLog>>

\* line 141: if (c) Serial.insertChar(c);
M_insert ==
  /\ At("m_insert")
  /\ IF c # 0
       THEN /\ serialBuf' = Append(serialBuf, c)
            /\ iterInserts' = Append(iterInserts, c)
       ELSE UNCHANGED <<serialBuf, iterInserts>>
  /\ stk' = Append(Pop(stk), "m_loop")
  /\ UNCHANGED <<termVars, sigVars, atexitList, exitVars, userVars, timeVars, c, nread,
                 delivered, logVars, startupLog, callLog>>

\* line 142: loop();
M_loop ==
  /\ At("m_loop")
  /\ startupLog' = Logged("loop")
  /\ CallUser(loopDefined, "m_yield")
  /\ UNCHANGED <<termVars, sigVars, atexitList, userVars, timeVars, loopVars, logVars,
                 callLog>>

\* the loop jumping past the read after yield()
M_yield_Mut ==
  /\ At("m_yield")
  /\ stk' = Append(Pop(stk), "m_insert")
  /\ UNCHANGED <<termVars, sigVars, atexitList, exitVars, userVars, timeVars,
                 loopVars, logVars, startupLog, callLog>>

\* line 143: yield();   usleep(1000)
M_yield ==
  /\ At("m_yield")
  /\ stk' = Append(Pop(stk), "m_read")
  /\ UNCHANGED <<termVars, sigVars, atexitList, exitVars, userVars, timeVars, loopVars,
                 logVars, startupLog, callLog>>

(* ----------------------------- call driver ----------------------------- *)

\* a caller that invokes enableRawMode() directly
T_enable ==
  /\ At("t_idle")
  /\ Len(callLog) < MaxCalls
  /\ callLog' = Append(callLog, [fn |-> "enableRawMode", term |-> term])
  /\ stk' = Append(stk, "e_isatty")
  /\ UNCHANGED <<termVars, sigVars, atexitList, exitVars, userVars, timeVars, loopVars,
                 logVars, startupLog>>

\* a caller that invokes disableRawMode() directly
T_disable ==
  /\ At("t_idle")
  /\ Len(callLog) < MaxCalls
  /\ callLog' = Append(callLog, [fn |-> "disableRawMode", term |-> term])
  /\ stk' = Append(stk, "d_isatty")
  /\ UNCHANGED <<termVars, sigVars, atexitList, exitVars, userVars, timeVars, loopVars,
                 logVars, startupLog>>

(* --------------------------- specifications ---------------------------- *)

\* the state of a fresh process, before its first statement
InitCommon ==
  /\ stdinKind \in {"tty", "pipe", "eof"}
  /\ isTty = (stdinKind = "tty")
  /\ term0 \in InitialTermios
  /\ term = term0
  /\ orig_termios = ZeroTermios
  /\ inRawMode = FALSE
  /\ sigHandler = "SIG_DFL"
  /\ sigBlocked = FALSE
  /\ atexitList = <<>>
  /\ atexitIdx = 0
  /\ exiting = FALSE
  /\ exitCalls = <<>>
  /\ killedBy = ""
  /\ c = 0
  /\ nread = 0
  /\ iterInserts = <<>>
  /\ serialBuf = <<>>
  /\ delivered = <<>>
  /\ syscalls = <<>>
  /\ stderrLog = <<>>
  /\ dieCalls = 0
  /\ sigMark = <<>>
  /\ startupLog = <<>>
  /\ callLog = <<>>
  /\ usleepArg = <<>>
  /\ elapsedMs = 0

\* the program: main() calls __main()
Init ==
  /\ InitCommon
  /\ setupDefined \in BOOLEAN
  /\ loopDefined \in BOOLEAN
  /\ delayMs = 0
  /\ stk = <<"m_signal">>

Next ==
  \/ M_signal \/ M_atexit \/ M_enable \/ M_setup
  \/ M_read \/ M_read_wake \/ M_insert \/ M_loop \/ M_yield
  \/ E_isatty \/ E_tcgetattr \/ E_tcsetattr \/ E_setflag
  \/ D_isatty \/ D_flag \/ D_tcsetattr \/ D_clear
  \/ Deliver \/ DeliverDefault
  \/ H_isatty \/ H_flag \/ H_tcsetattr \/ H_perror \/ H_clear \/ H_exit
  \/ Die \/ X_call \/ X_done

Spec == Init /\ [][Next]_vars

\* enableRawMode and disableRawMode called directly, in any order
InitCalls ==
  /\ InitCommon
  /\ setupDefined = FALSE
  /\ loopDefined = FALSE
  /\ delayMs = 0
  /\ stk = <<"t_idle">>

NextCalls ==
  \/ T_enable \/ T_disable
  \/ E_isatty \/ E_tcgetattr \/ E_tcsetattr \/ E_setflag
  \/ D_isatty \/ D_flag \/ D_tcsetattr \/ D_clear
  \/ Die \/ X_done

SpecCalls == InitCalls /\ [][NextCalls]_vars

(* ------------------------- delay() and millis() ------------------------ *)

\* 2^16: a useconds_t (32 bits, the parameter type of usleep) is kept as two
\* 16-bit halves [hi, lo], since 2^32 is beyond the model checker's integers
Half == 65536

\* how far the sampled delay() arguments reach from 0 and from the largest
\* argument whose microsecond value fits in 32 bits
DelaySpan == 10

\* floor((hi * 2^16 + lo) / 1000): microseconds to whole milliseconds
DivBy1000(hi, lo) ==
  (hi \div 1000) * Half + ((hi % 1000) * Half + lo) \div 1000

\* line 32: ms * 1000 converted to useconds_t, that is (ms * 1000) mod 2^32
MulTrunc32(ms) ==
  LET p0 == (ms % Half) * 1000
      p1 == (ms \div Half) * 1000 + p0 \div Half
  IN  [hi |-> p1 % Half, lo |-> p0 % Half]

\* the largest ms with ms * 1000 < 2^32
LastExact == DivBy1000(Half, 0)

\* the arguments of delay() that are tried
DelayInputs ==
  (0..DelaySpan)
    \cup ((LastExact - DelaySpan)..(LastExact + DelaySpan))
    \cup {1000, 60000, 2 * LastExact, 2 * LastExact + DelaySpan}

\* microseconds by which usleep() may sleep longer than asked, plus the
\* fraction of a millisecond at which the first millis() sample was taken
Oversleep == {0, 999, 2500}

\* a caller samples millis() and calls delay(delayMs)
T_delay ==
  /\ At("t_delay")
  /\ stk' = <<"t_after", "dl_call">>
  /\ UNCHANGED <<termVars, sigVars, atexitList, exitVars, userVars, timeVars,
                 loopVars, logVars, startupLog, callLog>>

\* line 32: the argument ms * 1000 is evaluated and converted to useconds_t
DL_call ==
  /\ At("dl_call")
  /\ usleepArg' = <<MulTrunc32(delayMs)>>
  /\ stk' = Append(Pop(stk), "dl_usleep")
  /\ UNCHANGED <<termVars, sigVars, atexitList, exitVars, userVars, delayMs,
                 elapsedMs, loopVars, logVars, startupLog, callLog>>

\* line 32: usleep() sleeps for at least the microseconds it was given; then
\* delay() returns and the caller samples millis() again (lines 39-44)
DL_usleep ==
  /\ At("dl_usleep")
  /\ \E over \in Oversleep :
       elapsedMs' = DivBy1000(usleepArg[1].hi, usleepArg[1].lo + over)
  /\ stk' = Pop(stk)
  /\ UNCHANGED <<termVars, sigVars, atexitList, exitVars, userVars, delayMs,
                 usleepArg, loopVars, logVars, startupLog, callLog>>

\* delay() called with any of the sampled arguments
InitDelay ==
  /\ InitCommon
  /\ stdinKind = "eof"
  /\ term0 = CookedTermios
  /\ setupDefined = FALSE
  /\ loopDefined = FALSE
  /\ delayMs \in DelayInputs
  /\ stk = <<"t_delay">>

NextDelay == T_delay \/ DL_call \/ DL_usleep

SpecDelay == InitDelay /\ [][NextDelay]_vars

\* every variable keeps to its type
TypeOK ==
  /\ isTty \in BOOLEAN
  /\ stdinKind \in {"tty", "pipe", "eof"}
  /\ isTty = (stdinKind = "tty")
  /\ inRawMode \in BOOLEAN
  /\ sigHandler \in {"SIG_DFL", "handleControlC"}
  /\ sigBlocked \in BOOLEAN
  /\ exiting \in BOOLEAN
  /\ killedBy \in {"", "SIGINT", "SIGSEGV"}
  /\ atexitIdx \in 0..Len(atexitList)
  /\ c \in Bytes
  /\ nread \in {-1, 0, 1}
  /\ Len(delivered) <= MaxInput
  /\ Len(sigMark) <= 1
  /\ Len(callLog) <= MaxCalls

(* ------------------------- auxiliary predicates ------------------------ *)

\* __main's own statement (the bottom frame) is l and exit() was not called
MainAt(l) == stk # <<>> /\ ~exiting /\ stk[1] = l

\* the process ended through exit(code)
ExitedWith(code) ==
  Terminated /\ killedBy = "" /\ exitCalls # <<>> /\ Last(exitCalls) = code

\* some recorded terminal call satisfies Test
SomeCall(Test(_)) == \E k \in 1..Len(syscalls) : Test(syscalls[k])

IsFailedRestore(e) == IsRestore(e) /\ ~e.ok
IsFailedCapture(e) == IsCapture(e) /\ ~e.ok
IsFailedApply(e)   == IsApply(e) /\ ~e.ok
IsOkApply(e)       == IsApply(e) /\ e.ok
IsSetattr(e)       == e.fn = "tcsetattr"
IsFailedDisable(e) == IsFailedRestore(e) /\ e.by = "disableRawMode"
IsFailedHandler(e) == IsFailedRestore(e) /\ e.by = "handleControlC"

(* ------------------------------- claims -------------------------------- *)

\* C1 (as claimed): on an interactive stdin, when the process has ended by
\* exit() or by the interrupt signal and no restoring tcsetattr failed, the
\* terminal has the configuration it had before enableRawMode ran.
C1_RestoredAtExit ==
  (isTty /\ Terminated /\ killedBy # "SIGSEGV" /\ ~SomeCall(IsFailedRestore))
    => term = term0

\* C2: when SIGINT is delivered while inRawMode is true, exactly one restoring
\* tcsetattr is attempted between the delivery and the end of the process
\* (handleControlC and the atexit-run disableRawMode together), die() is not
\* called, a failed restoration is reported with perror, and the process ends
\* with status 1.
C2_OneRestoreOnSignal ==
  (sigMark # <<>> /\ sigMark[1].flag) =>
    /\ nRestore - sigMark[1].restores <= 1
    /\ dieCalls = sigMark[1].dies
    /\ ~InHandler => nRestore - sigMark[1].restores = 1
    /\ Terminated =>
         /\ ExitedWith(1)
         /\ SomeCall(IsFailedHandler) =>
              \E k \in 1..Len(stderrLog) :
                 stderrLog[k] = "handleControlC(): tcsetattr() failure"

\* C2 witness: the process has ended after a SIGINT delivered in raw mode
\* whose restoration failed
C2_Witness ==
  /\ Terminated
  /\ sigMark # <<>> /\ sigMark[1].flag
  /\ SomeCall(IsFailedHandler)
  /\ nRestore - sigMark[1].restores = 1

\* C3 (as claimed): when SIGINT is delivered while inRawMode is false, once
\* the handler is over no restoration was attempted and the process is ending
\* with status 1.
C3_InactiveSignalExits ==
  (sigMark # <<>> /\ ~sigMark[1].flag /\ ~InHandler) =>
    /\ nRestore = sigMark[1].restores
    /\ killedBy = ""
    /\ exiting
    /\ Last(exitCalls) = 1

\* C4 (as claimed): a disableRawMode call that directly follows another
\* disableRawMode call, or that no enableRawMode call precedes, makes no
\* restoring tcsetattr call.
C4_DisableIdempotent ==
  \A i \in 1..Len(callLog) :
    ( /\ callLog[i].fn = "disableRawMode"
      /\ \/ i > 1 /\ callLog[i - 1].fn = "disableRawMode"
         \/ \A j \in 1..(i - 1) : callLog[j].fn # "enableRawMode" )
    => ~\E k \in 1..Len(syscalls) : syscalls[k].call = i /\ IsRestore(syscalls[k])

\* C5: when stdin is not a terminal, no sequence of enableRawMode and
\* disableRawMode calls makes a tcgetattr or tcsetattr call or changes
\* inRawMode, orig_termios or the terminal's configuration.
C5_NonTtyNoOp ==
  ~isTty =>
    /\ syscalls = <<>>
    /\ inRawMode = FALSE
    /\ orig_termios = ZeroTermios
    /\ term = term0
    /\ dieCalls = 0

\* C5 witness: on a non-terminal both functions have been called and returned
C5_Witness ==
  /\ ~isTty
  /\ At("t_idle")
  /\ \E i, j \in 1..Len(callLog) :
       callLog[i].fn = "enableRawMode" /\ callLog[j].fn = "disableRawMode"

\* C6: on an interactive stdin, when disableRawMode has returned from a call
\* made right after an enableRawMode call returned, the terminal has the
\* configuration it had when that enableRawMode was called.
C6_RoundTrip ==
  \A i \in 1..Len(callLog) :
    ( /\ isTty
      /\ i + 1 = Len(callLog)
      /\ At("t_idle")
      /\ callLog[i].fn = "enableRawMode"
      /\ callLog[i + 1].fn = "disableRawMode" )
    => term = callLog[i].term

\* C6 witness: the round trip is complete on a terminal that raw mode changed
C6_Witness ==
  /\ isTty
  /\ At("t_idle")
  /\ Len(callLog) = 2
  /\ callLog[1].fn = "enableRawMode"
  /\ callLog[2].fn = "disableRawMode"
  /\ MakeRaw(term0) # term0
  /\ term = term0

\* C7 (as claimed): a program that leaves out setup or loop never crashes
\* on the missing callback.
C7_AbsentCallbackSafe ==
  (~setupDefined \/ ~loopDefined) => killedBy # "SIGSEGV"

\* C8: the startup steps of __main happen in program order, each once:
\* signal(), atexit(), enableRawMode(), setup(), first loop iteration, first
\* loop(); the terminal is not made raw before both handlers are registered.
C8_StartupOrder ==
  /\ Len(startupLog) <= Len(StartupOrder)
  /\ \A i \in 1..Len(startupLog) : startupLog[i] = StartupOrder[i]
  /\ (SomeCall(IsSetattr) \/ term # term0 \/ inRawMode) =>
       /\ sigHandler = "handleControlC"
       /\ atexitList = <<"disableRawMode">>

\* C8 witness: on a terminal in raw mode the whole startup sequence is done
C8_Witness ==
  /\ isTty
  /\ inRawMode
  /\ term # term0
  /\ startupLog = StartupOrder

\* C9: in a loop iteration whose read returned one non-null byte b, exactly
\* one insertChar call is made and its argument is b; in an iteration whose
\* read returned no byte, no insertChar call is made.
C9_InsertPerRead ==
  (MainAt("m_loop") \/ MainAt("m_yield")) =>
    /\ (nread = 1 /\ Last(delivered) # 0) => iterInserts = <<Last(delivered)>>
    /\ nread = 0 => iterInserts = <<>>
    /\ Len(serialBuf) >= Len(iterInserts)
    /\ SubSeq(serialBuf, Len(serialBuf) - Len(iterInserts) + 1, Len(serialBuf))
         = iterInserts

\* C9 witness: the byte 'A' was read and inserted in this iteration
C9_Witness ==
  /\ MainAt("m_loop")
  /\ nread = 1
  /\ Last(delivered) = 65
  /\ iterInserts = <<65>>

\* C10: a failed tcgetattr in enableRawMode is followed by no tcsetattr and
\* leaves inRawMode false; a failed applying tcsetattr leaves inRawMode false
\* and no restoration is attempted; after any failed capture, apply or
\* disableRawMode restore the program does not resume and the process ends
\* with status 1.
C10_FailureExits ==
  /\ SomeCall(IsFailedCapture) =>
       /\ ~SomeCall(IsSetattr)
       /\ ~inRawMode
  /\ SomeCall(IsFailedApply) =>
       /\ ~inRawMode
       /\ nRestore = 0
  /\ (SomeCall(IsFailedCapture) \/ SomeCall(IsFailedApply)
        \/ SomeCall(IsFailedDisable)) =>
       /\ \A l \in {"m_setup", "m_read", "m_insert", "m_loop", "m_yield"} :
            MainAt(l) => (Len(stk) >= 2 /\ stk[2] \in DieLabels)
       /\ Terminated => ExitedWith(1)

\* C10 witness: the process has ended after disableRawMode's restore failed
C10_Witness ==
  /\ Terminated
  /\ SomeCall(IsFailedDisable)
  /\ dieCalls = 1

IsOkRestore(e) == IsRestore(e) /\ e.ok

\* handleControlC or disableRawMode is between its restoring tcsetattr call
\* and the statement that follows it
RestoreInProgress ==
  InHandler \/ \E i \in 1..Len(stk) : stk[i] = "d_clear"

\* C11 (as claimed): inRawMode is true only if enableRawMode has applied the
\* raw configuration, and once disableRawMode or handleControlC has made a
\* restoring tcsetattr call and moved on, inRawMode is false.
C11_FlagOnlyWhileRaw ==
  /\ inRawMode => SomeCall(IsOkApply)
  /\ (nRestore > 0 /\ ~RestoreInProgress) => ~inRawMode

\* die("disableRawMode(): tcsetattr() failure") is about to run or has run
DieDisableEntered ==
  \/ \E i \in 1..Len(stk) : stk[i] = "die:disableRawMode(): tcsetattr() failure"
  \/ \E k \in 1..Len(stderrLog) :
       stderrLog[k] = "die:disableRawMode(): tcsetattr() failure"

\* C12: when disableRawMode's restoring tcsetattr has failed, inRawMode is
\* false from the moment die() is entered, and from then on (exit(1), the
\* atexit handlers, the interrupt handler) no restoring tcsetattr is attempted.
C12_ClearBeforeDie ==
  [][DieDisableEntered =>
       (~inRawMode /\ ~inRawMode' /\ nRestore' = nRestore)]_vars

\* C12 witness: after the failed restore and die(), exit(1) has re-entered
\* disableRawMode, which is at its test of the flag
C12_Witness ==
  /\ stk = <<"x_run", "d_flag">>
  /\ SomeCall(IsFailedDisable)
  /\ dieCalls = 1
  /\ ~inRawMode

\* C13 (as claimed): on an interactive stdin, after any sequence of
\* enableRawMode and disableRawMode calls, whenever inRawMode is true
\* orig_termios holds the configuration the terminal had before raw mode was
\* first applied, never the raw configuration itself.
C13_SavedIsPreRaw ==
  (isTty /\ inRawMode) => orig_termios = term0

IsHandlerRestore(e) == IsRestore(e) /\ e.by = "handleControlC"

\* C14 (as claimed): handleControlC clears inRawMode before it attempts the
\* restoring tcsetattr: when the handler is about to make the call, and at
\* any time after it has made it, inRawMode is false.
C14_ClearBeforeRestore ==
  (At("h_tcsetattr") \/ SomeCall(IsHandlerRestore)) => ~inRawMode

\* __main is between two insertions: every byte read so far has passed
\* line 141
BetweenInserts ==
  \E l \in {"m_loop", "m_yield", "m_read", "m_read_wait"} : MainAt(l)

IsNonNull(b) == b # 0

\* s is an initial part of t
IsPrefix(s, t) == Len(s) <= Len(t) /\ SubSeq(t, 1, Len(s)) = s

\* C15 (as claimed): every byte that read() delivered, for every byte value
\* including 0x00, has been passed to Serial.insertChar unchanged, once and
\* in arrival order.
C15_AllBytesForwarded ==
  BetweenInserts => serialBuf = delivered

\* C15 (amended): every non-null byte that read() delivered has been passed
\* to Serial.insertChar unchanged, once and in arrival order; a delivered
\* 0x00 byte is not passed on.
C15_NonNullForwarded ==
  /\ IsPrefix(serialBuf, SelectSeq(delivered, IsNonNull))
  /\ BetweenInserts => serialBuf = SelectSeq(delivered, IsNonNull)

\* C15 witness: a NUL byte and then 0xFF were delivered, only 0xFF was
\* inserted
C15_Witness ==
  /\ MainAt("m_yield")
  /\ delivered = <<0, 255>>
  /\ serialBuf = <<255>>

\* the statements of the service loop (lines 139-143)
LoopLabels == {"m_read", "m_read_wait", "m_insert", "m_loop", "m_yield"}

\* the statement(s) that may follow statement l of the service loop
LoopSucc(l) ==
  CASE l = "m_read"      -> {"m_read_wait", "m_insert"}
    [] l = "m_read_wait" -> {"m_insert"}
    [] l = "m_insert"    -> {"m_loop"}
    [] l = "m_loop"      -> {"m_yield"}
    [] l = "m_yield"     -> {"m_read"}

C17_ReadNeverBlocks ==
  \A i \in 1..Len(stk) : stk[i] # "m_read_wait"

\* C18 (as claimed): delay(D) asks usleep for at least D milliseconds (the
\* microsecond value does not wrap), and millis() sampled after delay(D)
\* exceeds millis() sampled before it by at least D.
C18_DelayLowerBound ==
  At("t_after") =>
    /\ DivBy1000(usleepArg[1].hi, usleepArg[1].lo) >= delayMs
    /\ elapsedMs >= delayMs

\* below the wrap delay() asks for exactly its argument and the samples of
\* millis() differ by at least that much
DelayExactBelowWrap ==
  (At("t_after") /\ delayMs <= LastExact) =>
    /\ DivBy1000(usleepArg[1].hi, usleepArg[1].lo) = delayMs
    /\ elapsedMs >= delayMs

\* C19 (as claimed): whatever the interleaving of a normal exit with SIGINT,
\* the saved settings are written back to the terminal at most once after
\* the one successful enableRawMode of a run.
C19_AtMostOneWriteBack ==
  Len(SelectSeq(syscalls, IsOkRestore)) <= 1

\* the terminal has the raw configuration enableRawMode applied: the last
\* successful tcsetattr was the one of line 103
RawApplied ==
  \E k \in 1..Len(syscalls) :
    /\ IsOkApply(syscalls[k])
    /\ \A j \in (k + 1)..Len(syscalls) : ~IsOkRestore(syscalls[j])

\* SIGINT, if sent now, runs handleControlC
SignalDeliverable ==
  stk # <<>> /\ sigHandler = "handleControlC" /\ ~sigBlocked

\* C20 (as claimed): wherever SIGINT can be delivered, the terminal being in
\* the raw configuration applied by enableRawMode implies inRawMode is true.
C20_RawImpliesFlag ==
  (SignalDeliverable /\ RawApplied) => inRawMode

====
